---- MODULE Spec2Model ----
(***************************************************************************)
(* Model of scrap_rocket.py: the ScrapperFacade.parse pipeline, its three  *)
(* adapters (KFCScrapper, ZikoScrapper, MonomahScrapper) and the schedule  *)
(* compressor KFCScrapper._get_working_hours / _get_time_str.              *)
(*                                                                         *)
(* Python str values are TLA+ strings; the weekday labels of the source    *)
(* are Cyrillic two-letter strings and are transliterated here to          *)
(* two-letter ASCII strings of the same length.                            *)
(***************************************************************************)
EXTENDS Integers, Sequences, FiniteSets, TLC

VARIABLES
    time_dict,   \* argument of _get_working_hours
    result,      \* value returned by _get_working_hours
    begins,      \* value of the local `begin` after each loop iteration
    cpc,         \* "ready" before the call, "done" after it
    adapter,     \* the concrete ScrapperFacade running parse
    pc,          \* position of the run of parse
    page,        \* local `page` of parse
    raw_data,    \* local `raw_data` of parse
    data,        \* local `data` of parse
    fault,       \* the exception raised in the try block, and its stage
    pyresult,    \* local `result` of parse
    retval,      \* what parse returned to its caller
    file,        \* the file at self.path
    file0,       \* the file at self.path before the run
    fs,          \* condition of the file system holding self.path
    executed     \* the stages of the run entered so far, in order

cvars == <<time_dict, result, begins, cpc>>

pvars == <<adapter, pc, page, raw_data, data, fault, pyresult, retval,
           file, file0, fs, executed>>

vars == <<cvars, pvars>>

(***************************************************************************)
(* Bounds                                                                  *)
(***************************************************************************)
NumHours == 4
MaxItems == 2

(***************************************************************************)
(* Python helpers                                                          *)
(***************************************************************************)
Min(a, b) == IF a < b THEN a ELSE b

\* s[:n] on a str
SliceTo(s, n) == SubSeq(s, 1, Min(n, Len(s)))

\* list.index(x): position of the first element equal to x
RECURSIVE IndexFrom(_, _, _)
IndexFrom(seq, x, i) ==
    IF seq[i] = x THEN i ELSE IndexFrom(seq, x, i + 1)

Index(seq, x) == IndexFrom(seq, x, 1)

(***************************************************************************)
(* KFCScrapper._get_time_str                                               *)
(***************************************************************************)
days == <<"pn", "vt", "sr", "ch", "pt", "sb", "vs">>

TimeLen == 5

\* f"{day.get(key, [])[:5]}": the value cut to five characters, or the
\* rendering of the empty list when the key is absent
TimeField(day, key) ==
    IF key \in DOMAIN day THEN SliceTo(day[key], TimeLen) ELSE "[]"

TimeOf(day) == TimeField(day, "timeFrom") \o "-" \o TimeField(day, "timeTill")

\* the list comprehension `time`
TimeList(td) == [i \in 1..Len(td) |-> TimeOf(td[i])]

\* dict(zip(time, days)): a dict in insertion order, as a sequence of
\* <<key, value>>; a repeated key keeps its place and takes the new value;
\* zip stops at the shorter of the two lists
RECURSIVE DictZip(_, _, _, _)
DictZip(keys, vals, i, d) ==
    IF i > Min(Len(keys), Len(vals)) THEN d
    ELSE LET hit == {j \in 1..Len(d) : d[j][1] = keys[i]}
         IN  IF hit = {}
             THEN DictZip(keys, vals, i + 1, Append(d, <<keys[i], vals[i]>>))
             ELSE DictZip(keys, vals, i + 1,
                          [j \in 1..Len(d) |->
                              IF j \in hit THEN <<keys[i], vals[i]>> ELSE d[j]])

days_time_map(td) == DictZip(TimeList(td), days, 1, <<>>)

\* begin after one iteration of the loop over days_time_map.items()
NextBeginOff(begin, end) == days[Index(days, end)]

NextBegin(begin, end) ==
    LET begin_index == Index(days, end) + 1
    IN  IF begin_index # Len(days) + 1 THEN days[begin_index] ELSE begin

\* the entry appended by one iteration
Entry(begin, end, time) == begin \o "-" \o end \o " " \o time

\* the loop; returns the result list and the trace of `begin`
RECURSIVE TimeStrLoop(_, _, _, _, _)
TimeStrLoop(items, i, begin, res, trace) ==
    IF i > Len(items) THEN [result |-> res, begins |-> trace]
    ELSE LET time == items[i][1]
             end  == items[i][2]
             nb   == NextBegin(begin, end)
         IN  TimeStrLoop(items, i + 1, nb,
                         Append(res, Entry(begin, end, time)),
                         Append(trace, nb))

get_time_str_run(td) == TimeStrLoop(days_time_map(td), 1, days[1], <<>>, <<>>)

get_time_str(td) == get_time_str_run(td).result

(***************************************************************************)
(* KFCScrapper._get_working_hours                                          *)
(***************************************************************************)
Closed == "Closed"

get_working_hours_noguard(td) == get_time_str(td)

get_working_hours(td) ==
    IF td # <<>> THEN get_time_str(td) ELSE <<Closed>>

(***************************************************************************)
(* Inputs of the compressor: regularDaily lists                            *)
(***************************************************************************)
\* opening hours as the source may deliver them: with seconds, without,
\* two that differ only after the fifth character, one without timeFrom
HoursTable == <<
    [timeFrom |-> "09:00:00", timeTill |-> "18:00:00"],
    [timeFrom |-> "10:00",    timeTill |-> "15:00"],
    [timeFrom |-> "09:00:59", timeTill |-> "18:00:00"],
    [timeTill |-> "22:00:00"],
    [timeFrom |-> "08:00",    timeTill |-> "08:00"],
    [timeFrom |-> "00:00:00", timeTill |-> "23:59:59"] >>

Hours == 1..Min(NumHours, Len(HoursTable))

DayInterval(wd, h) ==
    [k \in DOMAIN HoursTable[h] \cup {"weekDay"} |->
        IF k = "weekDay" THEN days[wd] ELSE HoursTable[h][k]]

RECURSIVE SortedSeq(_)
SortedSeq(S) ==
    IF S = {} THEN <<>>
    ELSE LET m == CHOOSE x \in S : \A y \in S : x <= y
         IN  <<m>> \o SortedSeq(S \ {m})

\* one entry per operating weekday, in canonical weekday order
Schedule(S, h) ==
    LET order == SortedSeq(S)
    IN  [i \in 1..Len(order) |-> DayInterval(order[i], h[i])]

\* no run of parse
PIdle ==
    /\ adapter = "KFC"
    /\ pc = "idle"
    /\ page = [none |-> TRUE]
    /\ raw_data = [none |-> TRUE]
    /\ data = <<>>
    /\ fault = [exc |-> "", stage |-> ""]
    /\ pyresult = [none |-> TRUE]
    /\ retval = [none |-> TRUE]
    /\ file = [exists |-> FALSE, doc |-> <<>>, complete |-> FALSE]
    /\ file0 = file
    /\ fs = "ok"
    /\ executed = <<>>

(***************************************************************************)
(* Specification of the compressor                                         *)
(***************************************************************************)
CInit ==
    /\ \E S \in SUBSET (1..Len(days)) :
         \E h \in [1..Cardinality(S) -> Hours] :
            time_dict = Schedule(S, h)
    /\ result = <<>>
    /\ begins = <<>>
    /\ cpc = "ready"
    /\ PIdle

GetWorkingHours ==
    /\ cpc = "ready"
    /\ result' = get_working_hours(time_dict)
    /\ begins' = IF time_dict # <<>> THEN get_time_str_run(time_dict).begins
                 ELSE <<>>
    /\ cpc' = "done"
    /\ UNCHANGED <<time_dict, pvars>>

CNext == GetWorkingHours

CompressSpec == CInit /\ [][CNext]_vars


(***************************************************************************)
(* Python values of the pipeline                                           *)
(***************************************************************************)
\* None where the alternative is a dict or a list
None == [none |-> TRUE]

IsNone(v) == "none" \in DOMAIN v

\* a list object
PyList(seq) == [list |-> seq]

\* None where the alternative is a str (JSON null in the written document)
Null == "null"

\* dict.get(key) and dict.get(key, default) on a dict with str values
Get(d, key) == IF key \in DOMAIN d THEN d[key] ELSE Null

GetOr(d, key, default) == IF key \in DOMAIN d THEN d[key] ELSE default

\* a list of two values as json.dump writes it
PairText(a, b) == "[" \o a \o ", " \o b \o "]"

\* str.replace(old, new)
RECURSIVE Replace(_, _, _)
Replace(s, old, new) ==
    IF Len(s) < Len(old) THEN s
    ELSE IF SubSeq(s, 1, Len(old)) = old
         THEN new \o Replace(SubSeq(s, Len(old) + 1, Len(s)), old, new)
         ELSE SubSeq(s, 1, 1) \o Replace(SubSeq(s, 2, Len(s)), old, new)

\* str.index(c): the 0-based position of the first c, or -1 where the
\* source raises ValueError
RECURSIVE StrIndexFrom(_, _, _)
StrIndexFrom(s, c, i) ==
    IF i > Len(s) THEN -1
    ELSE IF SubSeq(s, i, i) = c THEN i - 1
    ELSE StrIndexFrom(s, c, i + 1)

StrIndex(s, c) == StrIndexFrom(s, c, 1)

\* s[a:b] with 0-based non-negative a and b
Slice(s, a, b) == SubSeq(s, a + 1, Min(b, Len(s)))

(***************************************************************************)
(* Exceptions and the except clauses of ScrapperFacade.parse               *)
(***************************************************************************)
NoFault == [exc |-> "", stage |-> ""]

Fault(e, st) == [exc |-> e, stage |-> st]

\* the classes an exception is an instance of
Mro(e) ==
    CASE e = "NewConnectionError" -> {"NewConnectionError", "HTTPError"}
      [] e = "MaxRetryError"      -> {"MaxRetryError", "HTTPError"}
      [] e = "ConnectionError"    -> {"ConnectionError", "RequestException", "OSError"}
      [] e = "MissingSchema"      -> {"MissingSchema", "RequestException", "OSError", "ValueError"}
      [] e = "JSONDecodeError"    -> {"JSONDecodeError", "ValueError"}
      [] e = "FileNotFoundError"  -> {"FileNotFoundError", "OSError"}
      [] e = "PermissionError"    -> {"PermissionError", "OSError"}
      [] OTHER                    -> {e}

ExceptClauses ==
    {"NewConnectionError", "MaxRetryError", "ConnectionError",
     "MissingSchema", "TypeError", "FileNotFoundError"}

Caught(e) == Mro(e) \cap ExceptClauses # {}

(***************************************************************************)
(* KFCScrapper                                                             *)
(***************************************************************************)
\* regularDaily lists the API may deliver
KFCSchedules ==
    { <<>>,
      Schedule(1..7, <<1, 1, 1, 1, 1, 2, 2>>),
      Schedule(1..3, <<1, 2, 1>>) }

KFCContacts ==
    { [streetAddress |-> a, geometry |-> "[27.56, 53.9]", name |-> "KFC", phoneNumber |-> "+7000"]
          : a \in {[en |-> "Lenina 1"], [ru |-> "Lenina 1"]} }
    \cup
    { [streetAddress |-> [en |-> "Lenina 1"], geometry |-> "[27.56, 53.9]", name |-> "KFC"] }

\* an element of searchResults; storePublic.contacts may be absent
KFCItems ==
    { [contacts |-> c, regularDaily |-> td] : c \in KFCContacts, td \in KFCSchedules }
    \cup { [regularDaily |-> <<>>] }

\* requests.get(...).json(): the API's dict, an error payload without
\* searchResults, or JSON null
KFCPages ==
    { [searchResults |-> PyList(items)] :
          items \in UNION {[1..n -> KFCItems] : n \in 0..MaxItems} }
    \cup { [message |-> "error"], None }

KFC_get_raw_data(pg) ==
    IF IsNone(pg) THEN [exc |-> "AttributeError", value |-> None]
    ELSE [exc |-> "", value |-> GetOr(pg, "searchResults", None)]

KFC_record(kfc) ==
    [address       |-> GetOr(kfc.contacts.streetAddress, "en", "ru"),
     latlon        |-> kfc.contacts.geometry,
     name          |-> kfc.contacts.name,
     phones        |-> Get(kfc.contacts, "phoneNumber"),
     working_hours |-> get_working_hours(kfc.regularDaily)]

\* the exception one element of the comprehension raises, or ""
KFC_item_exc(kfc) ==
    IF "contacts" \in DOMAIN kfc THEN "" ELSE "AttributeError"

(***************************************************************************)
(* ZikoScrapper                                                            *)
(***************************************************************************)
ZikoItems ==
    { [address |-> "Krakow 1", lat |-> "50.06", lng |-> "19.94", title |-> "Ziko",
       mp_pharmacy_hours |-> h] : h \in {"8-20<br>9-15", "24h"} }
    \cup
    { [address |-> "Krakow 1", lat |-> "50.06", lng |-> "19.94", title |-> "Ziko"],
      [lat |-> "50.06", lng |-> "19.94", title |-> "Ziko", mp_pharmacy_hours |-> "24h"] }

\* the dict id -> pharmacy, as the sequence of its values in dict order
ZikoPages ==
    { PyList(items) : items \in UNION {[1..n -> ZikoItems] : n \in 0..MaxItems} }

Ziko_get_raw_data(pg) == [exc |-> "", value |-> pg]

Ziko_record(d) ==
    [address       |-> Get(d, "address"),
     latlon        |-> PairText(Get(d, "lat"), Get(d, "lng")),
     name          |-> Get(d, "title"),
     phones        |-> "This information is not found in the API",
     working_hours |-> Replace(d.mp_pharmacy_hours, "<br>", " ")]

\* None.replace raises AttributeError
Ziko_item_exc(d) ==
    IF "mp_pharmacy_hours" \in DOMAIN d THEN "" ELSE "AttributeError"

(***************************************************************************)
(* MonomahScrapper                                                         *)
(***************************************************************************)
\* Nominatim.geocode: a location, or None when nothing is found
Geocode(query) ==
    CASE query = " Galileo, Minsk" -> [latitude |-> "53.89", longitude |-> "27.55"]
      [] query = "Stolitsa, Minsk" -> [latitude |-> "53.90", longitude |-> "27.56"]
      [] OTHER                     -> None

NotInfo == "Not info"

\* the try block of _get_location_map: the value it returns, or the
\* exception it raises (str.index raises ValueError, None.latitude raises
\* AttributeError)
location_try(shop_adress, city) ==
    LET open  == StrIndex(shop_adress, "(")
        close == StrIndex(shop_adress, ")")
    IN  IF open < 0 \/ close < 0 THEN [exc |-> "ValueError", value |-> ""]
        ELSE LET shop_name == Replace(Slice(shop_adress, open + 1, close), "TRC", "")
                                  \o ", " \o city
                 location  == Geocode(shop_name)
             IN  IF IsNone(location) THEN [exc |-> "AttributeError", value |-> ""]
                 ELSE [exc |-> "",
                       value |-> PairText(location.latitude, location.longitude)]

get_location_map_one_clause(shop_adress, city) ==
    LET r == location_try(shop_adress, city)
    IN  IF r.exc \in {"AttributeError"}
        THEN [exc |-> "", value |-> NotInfo]
        ELSE r

\* the two except clauses return 'Not info'
get_location_map(shop_adress, city) ==
    LET r == location_try(shop_adress, city)
    IN  IF r.exc \in {"AttributeError", "ValueError"}
        THEN [exc |-> "", value |-> NotInfo]
        ELSE r

MonomahAddresses ==
    {"Pobediteley 9 (TRC Galileo)", "Lenina 5 (Stolitsa)",
     "Kirova 1 (Atlantida)", "Nezavisimosti 3"}

\* a div.shop element: the text of its p.name and p.phone children, where
\* the element has them
MonomahItems ==
    { [name |-> a, phone |-> "+375"] : a \in MonomahAddresses }
    \cup { [name |-> "Lenina 5 (Stolitsa)"], [phone |-> "+375"] }

MonomahPages ==
    { PyList(items) : items \in UNION {[1..n -> MonomahItems] : n \in 0..MaxItems} }

Monomah_get_raw_data(pg) == [exc |-> "", value |-> pg]

Monomah_record(article) ==
    [address |-> article.name,
     latlon  |-> get_location_map(article.name, "Minsk").value,
     name    |-> "Monomah",
     phones  |-> article.phone]

\* find() returns None for a missing child and None.text raises
\* AttributeError; an exception leaving _get_location_map is raised too
Monomah_item_exc(article) ==
    IF "name" \notin DOMAIN article THEN "AttributeError"
    ELSE IF get_location_map(article.name, "Minsk").exc # ""
         THEN get_location_map(article.name, "Minsk").exc
    ELSE IF "phone" \notin DOMAIN article THEN "AttributeError"
    ELSE ""

(***************************************************************************)
(* The three abstract methods, by adapter                                  *)
(***************************************************************************)
Adapters == {"KFC", "Ziko", "Monomah"}

Pages(a) ==
    CASE a = "KFC"     -> KFCPages
      [] a = "Ziko"    -> ZikoPages
      [] a = "Monomah" -> MonomahPages

\* what requests.get and Response.json raise
FetchFaults(a) ==
    {"NewConnectionError", "MaxRetryError", "ConnectionError", "MissingSchema"}
    \cup (IF a = "Monomah" THEN {} ELSE {"JSONDecodeError"})

get_raw_data(a, pg) ==
    CASE a = "KFC"     -> KFC_get_raw_data(pg)
      [] a = "Ziko"    -> Ziko_get_raw_data(pg)
      [] a = "Monomah" -> Monomah_get_raw_data(pg)

ItemExc(a, item) ==
    CASE a = "KFC"     -> KFC_item_exc(item)
      [] a = "Ziko"    -> Ziko_item_exc(item)
      [] a = "Monomah" -> Monomah_item_exc(item)

Record(a, item) ==
    CASE a = "KFC"     -> KFC_record(item)
      [] a = "Ziko"    -> Ziko_record(item)
      [] a = "Monomah" -> Monomah_record(item)

\* the list comprehension of clear_data: iterating None raises TypeError,
\* the first element that raises ends the comprehension
clear_data(a, raw) ==
    IF IsNone(raw) THEN [exc |-> "TypeError", value |-> <<>>]
    ELSE LET items == raw.list
             bad   == {i \in 1..Len(items) : ItemExc(a, items[i]) # ""}
         IN  IF bad # {}
             THEN [exc |-> ItemExc(a, items[CHOOSE i \in bad : \A j \in bad : i <= j]),
                   value |-> <<>>]
             ELSE [exc |-> "", value |-> [i \in 1..Len(items) |-> Record(a, items[i])]]

(***************************************************************************)
(* ScrapperFacade.save_data                                                *)
(***************************************************************************)
NoFile == [exists |-> FALSE, doc |-> <<>>, complete |-> FALSE]

Document(d) == [exists |-> TRUE, doc |-> d, complete |-> TRUE]

\* the document a previous run left at self.path
OldDoc ==
    << [address |-> "old", latlon |-> "[0, 0]", name |-> "old", phones |-> "old",
        working_hours |-> "old"] >>

\* the file system: writable, without the directory of self.path, not
\* writable, or failing while the document is written
FsStates == {"ok", "nodir", "readonly", "ioerror"}

\* codecs.open(self.path, 'w') creates or truncates the file and json.dump
\* then writes the document piece by piece; k is the number of records
\* written when the write fails
save_data(f, condition, d, k) ==
    CASE condition = "nodir"    -> [exc |-> "FileNotFoundError", file |-> f]
      [] condition = "readonly" -> [exc |-> "PermissionError", file |-> f]
      [] condition = "ioerror"  ->
             [exc |-> "OSError",
              file |-> [exists |-> TRUE, doc |-> SubSeq(d, 1, k), complete |-> FALSE]]
      [] OTHER                  -> [exc |-> "", file |-> Document(d)]

(***************************************************************************)
(* ScrapperFacade.parse                                                    *)
(***************************************************************************)
CIdle ==
    /\ time_dict = <<>>
    /\ result = <<>>
    /\ begins = <<>>
    /\ cpc = "idle"

PInit ==
    /\ adapter \in Adapters
    /\ pc = "Fetching"
    /\ page = None
    /\ raw_data = None
    /\ data = <<>>
    /\ fault = NoFault
    /\ pyresult = None
    /\ retval = None
    /\ file0 \in {NoFile, Document(OldDoc)}
    /\ file = file0
    /\ fs \in FsStates
    /\ executed = <<>>
    /\ CIdle

Raise(e, st) ==
    /\ fault' = Fault(e, st)
    /\ pc' = "Failed"

\* page = self.get_page()
GetPage ==
    /\ pc = "Fetching"
    /\ executed' = Append(executed, "Fetching")
    /\ \/ \E e \in FetchFaults(adapter) :
             /\ Raise(e, "Fetching")
             /\ UNCHANGED page
       \/ \E pg \in Pages(adapter) :
             /\ page' = pg
             /\ pc' = "Extracting"
             /\ UNCHANGED fault
    /\ UNCHANGED <<adapter, raw_data, data, pyresult, retval, file, file0, fs, cvars>>

\* raw_data = self.get_raw_data(page=page)
GetRawData ==
    /\ pc = "Extracting"
    /\ executed' = Append(executed, "Extracting")
    /\ LET r == get_raw_data(adapter, page)
       IN  IF r.exc # ""
           THEN Raise(r.exc, "Extracting") /\ UNCHANGED raw_data
           ELSE raw_data' = r.value /\ pc' = "Normalizing" /\ UNCHANGED fault
    /\ UNCHANGED <<adapter, page, data, pyresult, retval, file, file0, fs, cvars>>

\* data = self.clear_data(raw_data)
ClearData ==
    /\ pc = "Normalizing"
    /\ executed' = Append(executed, "Normalizing")
    /\ LET r == clear_data(adapter, raw_data)
       IN  IF r.exc # ""
           THEN Raise(r.exc, "Normalizing") /\ UNCHANGED data
           ELSE data' = r.value /\ pc' = "Persisting" /\ UNCHANGED fault
    /\ UNCHANGED <<adapter, page, raw_data, pyresult, retval, file, file0, fs, cvars>>

\* self.save_data(data)
SaveData ==
    /\ pc = "Persisting"
    /\ executed' = Append(executed, "Persisting")
    /\ \E k \in 0..Len(data) :
          LET r == save_data(file, fs, data, k)
          IN  /\ file' = r.file
              /\ IF r.exc # ""
                 THEN Raise(r.exc, "Persisting")
                 ELSE pc' = "Done" /\ UNCHANGED fault
    /\ UNCHANGED <<adapter, page, raw_data, data, pyresult, retval, file0, fs, cvars>>

\* return {"error": False, "data": data}
ReturnData ==
    /\ pc = "Done"
    /\ retval' = [error |-> FALSE, data |-> data]
    /\ pc' = "Returned"
    /\ UNCHANGED <<adapter, page, raw_data, data, fault, pyresult, file, file0,
                   fs, executed, cvars>>

\* the except clauses: each assigns the local result, after which the
\* function ends without a return statement; an exception no clause
\* matches leaves parse
Except ==
    /\ pc = "Failed"
    /\ IF Caught(fault.exc)
       THEN /\ pyresult' = [error |-> TRUE, message |-> fault.exc]
            /\ retval' = None
            /\ pc' = "Returned"
       ELSE /\ pc' = "Raised"
            /\ UNCHANGED <<pyresult, retval>>
    /\ UNCHANGED <<adapter, page, raw_data, data, fault, file, file0, fs,
                   executed, cvars>>

PNext == GetPage \/ GetRawData \/ ClearData \/ SaveData \/ ReturnData \/ Except

Spec == PInit /\ [][PNext]_vars

(***************************************************************************)
(* Reading the compressor's output back                                    *)
(***************************************************************************)
\* an entry is "{begin}-{end} {time}" and every label has two characters
EntryBegin(e) == SubSeq(e, 1, 2)
EntryEnd(e) == SubSeq(e, 4, 5)
EntryTime(e) == SubSeq(e, 7, Len(e))

\* the days from the begin label through the end label, each with the time
ExpandEntry(e) ==
    LET ib == Index(days, EntryBegin(e))
        ie == Index(days, EntryEnd(e))
    IN  [k \in 1..(ie - ib + 1) |-> <<days[ib + k - 1], EntryTime(e)>>]

RECURSIVE Expand(_)
Expand(res) ==
    IF res = <<>> THEN <<>> ELSE ExpandEntry(Head(res)) \o Expand(Tail(res))

InputMapping(td) == {<<td[i].weekDay, TimeOf(td[i])>> : i \in 1..Len(td)}

SevenDay(td) ==
    /\ Len(td) = Len(days)
    /\ \A i \in 1..Len(td) : td[i].weekDay = days[i]

\* first positions of the maximal runs of equal time string
GroupStarts(td) ==
    {i \in 1..Len(td) : i = 1 \/ TimeOf(td[i]) # TimeOf(td[i - 1])}

DistinctGroups(td) ==
    \A a, b \in GroupStarts(td) : a # b => TimeOf(td[a]) # TimeOf(td[b])

GroupEnd(td, s) ==
    LET later == {x \in GroupStarts(td) : x > s}
    IN  IF later = {} THEN Len(td)
        ELSE (CHOOSE x \in later : \A y \in later : x <= y) - 1

ExpectedRanges(td) ==
    LET starts == SortedSeq(GroupStarts(td))
    IN  [j \in 1..Len(starts) |->
            td[starts[j]].weekDay \o "-" \o td[GroupEnd(td, starts[j])].weekDay
                \o " " \o TimeOf(td[starts[j]])]

(***************************************************************************)
(* Properties of the compressor                                            *)
(***************************************************************************)
\* C1: for every non-empty schedule, expanding each entry of the output
\* into the days from its begin label through its end label gives exactly
\* the input's day -> time-string mapping, each input day once, no other day.
C1_RoundTrip ==
    (cpc = "done" /\ time_dict # <<>>) =>
        LET ex == Expand(result)
        IN  /\ Len(ex) = Len(time_dict)
            /\ {ex[i] : i \in 1..Len(ex)} = InputMapping(time_dict)

\* C2: on the empty schedule the compressor returns exactly one entry, the
\* closed sentinel, and it returns that for no non-empty schedule.
C2_EmptyIsClosed ==
    cpc = "done" =>
        /\ time_dict = <<>> => result = <<Closed>>
        /\ time_dict # <<>> => result # <<Closed>>

C2_Witness == cpc = "done" /\ time_dict = <<>> /\ result = <<Closed>>

\* C7: a schedule of the single day d with time t yields exactly one entry,
\* "d-d t".
C7_SingleDay ==
    (cpc = "done" /\ Len(time_dict) = 1) =>
        result = << time_dict[1].weekDay \o "-" \o time_dict[1].weekDay
                      \o " " \o TimeOf(time_dict[1]) >>

\* C9: a seven-day schedule starting at the first weekday whose k contiguous
\* groups have pairwise distinct time strings yields the k entries
\* "{first}-{last} {time}" in group order; after each entry begin is the
\* weekday following the entry's end day, or unchanged when the end day is
\* the last weekday.
C9_ContiguousGroups ==
    cpc = "done" =>
        /\ (SevenDay(time_dict) /\ DistinctGroups(time_dict)) =>
               result = ExpectedRanges(time_dict)
        /\ time_dict # <<>> =>
               /\ Len(begins) = Len(result)
               /\ \A i \in 1..Len(result) :
                      begins[i] =
                          IF EntryEnd(result[i]) = days[Len(days)]
                          THEN EntryBegin(result[i])
                          ELSE days[Index(days, EntryEnd(result[i])) + 1]

C9_Witness ==
    /\ cpc = "done"
    /\ SevenDay(time_dict)
    /\ DistinctGroups(time_dict)
    /\ Cardinality(GroupStarts(time_dict)) = 3
    /\ Len(result) = 3
    /\ begins[3] = EntryBegin(result[3])
    /\ begins[1] # EntryBegin(result[1])

\* C10: every entry's begin label is not later than its end label, and the
\* day ranges of successive entries are disjoint and strictly increasing.
C10_WellFormed ==
    (cpc = "done" /\ time_dict # <<>>) =>
        /\ \A i \in 1..Len(result) :
               Index(days, EntryBegin(result[i])) <= Index(days, EntryEnd(result[i]))
        /\ \A i \in 1..(Len(result) - 1) :
               Index(days, EntryEnd(result[i])) < Index(days, EntryBegin(result[i + 1]))

(***************************************************************************)
(* Properties of the pipeline                                              *)
(***************************************************************************)
Ended == pc \in {"Returned", "Raised"}

\* the error kinds of the taxonomy, by exception class
KindOf(e) ==
    CASE e \in {"NewConnectionError", "MaxRetryError", "ConnectionError"}
             -> "ConnectivityError"
      [] e = "MissingSchema" -> "MalformedRequestError"
      [] e = "TypeError" -> "TypeValidationError"
      [] e \in {"FileNotFoundError", "PermissionError"} -> "PersistenceError"
      [] OTHER -> "Other"

\* a text operation on a missing value: str.replace on the absent
\* mp_pharmacy_hours
TextOpOnMissing ==
    /\ adapter = "Ziko"
    /\ fault = Fault("AttributeError", "Normalizing")

FaultKind ==
    IF TextOpOnMissing THEN "TypeValidationError" ELSE KindOf(fault.exc)

\* a PipelineResult with ok=false carrying the fault
IsFailureResult(v) ==
    /\ "error" \in DOMAIN v
    /\ v.error = TRUE
    /\ "message" \in DOMAIN v
    /\ v.message = fault.exc

\* C3: when the fetch stage raises a connectivity fault, parse returns a
\* result with ok=false of kind ConnectivityError, save_data is never
\* invoked and the output file is as it was.
C3_ConnectivityFault ==
    (Ended /\ fault.stage = "Fetching" /\ KindOf(fault.exc) = "ConnectivityError") =>
        /\ pc = "Returned"
        /\ IsFailureResult(retval)
        /\ \A i \in 1..Len(executed) : executed[i] # "Persisting"
        /\ file = file0

\* C4: a fault raised in a stage leaves parse if and only if its kind is
\* outside the taxonomy; a fault of one of the four kinds, a text operation
\* on a missing value included, is caught and returned as a result with
\* ok=false and a message.
C4_TaxonomyRecovered ==
    (Ended /\ fault # NoFault) =>
        /\ pc = "Raised" <=> FaultKind = "Other"
        /\ FaultKind # "Other" => IsFailureResult(retval)

\* the latlon of a shop: the sentinel when its address has no parenthesised
\* place or the geocoder finds nothing, the geocoder's coordinates otherwise
GeocodeFails(article) == location_try(article.name, "Minsk").exc # ""

ExpectedLatlon(article) ==
    IF GeocodeFails(article) THEN NotInfo
    ELSE location_try(article.name, "Minsk").value

WellFormedShops ==
    /\ ~IsNone(raw_data)
    /\ \A i \in 1..Len(raw_data.list) : DOMAIN raw_data.list[i] = {"name", "phone"}

\* C5: in the HTML adapter's normalize, exactly the items whose geocode
\* lookup fails get latlon "Not info", the others keep the geocoder's
\* coordinates, all other fields are unaffected, normalize raises nothing
\* and a run that persists returns ok=true.
C5_GeocodeFallback ==
    (adapter = "Monomah" /\ pc \in {"Persisting", "Done", "Failed", "Returned", "Raised"}
       /\ WellFormedShops) =>
        /\ fault.stage # "Normalizing"
        /\ Len(data) = Len(raw_data.list)
        /\ \A i \in 1..Len(data) :
               /\ data[i].latlon = ExpectedLatlon(raw_data.list[i])
               /\ data[i].address = raw_data.list[i].name
               /\ data[i].phones = raw_data.list[i].phone
               /\ data[i].name = "Monomah"
        /\ (pc = "Returned" /\ fault = NoFault) =>
               retval = [error |-> FALSE, data |-> data]
        /\ (Ended /\ fs = "ok") => (pc = "Returned" /\ retval.error = FALSE)

C5_Witness ==
    /\ adapter = "Monomah"
    /\ pc = "Returned"
    /\ WellFormedShops
    /\ Len(data) = 2
    /\ GeocodeFails(raw_data.list[1])
    /\ ~GeocodeFails(raw_data.list[2])
    /\ data[1].latlon = NotInfo
    /\ data[2].latlon # NotInfo
    /\ retval = [error |-> FALSE, data |-> data]

RecordKeys == {"address", "latlon", "name", "phones", "working_hours"}

\* C6: every record normalize produces, and every object of the persisted
\* document, has exactly the keys address, latlon, name, phones and
\* working_hours.
C6_FiveKeys ==
    /\ \A i \in 1..Len(data) : DOMAIN data[i] = RecordKeys
    /\ \A i \in 1..Len(file.doc) : DOMAIN file.doc[i] = RecordKeys

\* C8: when a run fails in any stage, no later stage is executed and the
\* output document is exactly as it was before the run.
C8_NoPartialPersistence ==
    fault # NoFault =>
        /\ executed[Len(executed)] = fault.stage
        /\ file = file0

====
